---------------------------- MODULE Spec2Model ----------------------------
(***************************************************************************)
(* Text signing / verification / encryption core of rcli                   *)
(* (src/process/text.rs, src/cli/text.rs).                                 *)
(*                                                                         *)
(* Byte strings are sequences over 0..255.  The three external primitives  *)
(* (blake3::keyed_hash, ed25519_dalek, chacha20poly1305) are represented   *)
(* by small arithmetic stand-ins that keep the shape the crate gives them: *)
(* output lengths, determinism, which inputs make them fail, and           *)
(* collision-freedom on the bounded inputs explored here.  Everything      *)
(* around them (key loading, slicing, framing of nonce || ciphertext,      *)
(* comparisons, error propagation) is transcribed from the Rust code.      *)
(***************************************************************************)
EXTENDS Integers, Sequences, FiniteSets, TLC

VARIABLES fs, out, last, procs

vars == <<fs, out, last, procs>>

---------------------------------------------------------------------------
(* Program constants *)

\* [u8; 32] key arrays, &key[0..32]
KeyLen == 32
\* chacha20poly1305 nonce, buf[0..12]
NonceLen == 12
\* Poly1305 tag appended by the AEAD
TagLen == 16
\* ed25519 Signature::from_bytes takes &[u8; 64]
SigLen == 64
\* blake3 output length
HashLen == 32

(* Bounds of the exploration *)

\* input data: Data(0) .. Data(MaxData)
MaxData == 2
\* draws of the random source for a key: 1 .. NumSeeds
NumSeeds == 1
\* draws of the random source for a nonce: 1 .. NumNonces
NumNonces == 2
\* bytes a key file may hold beyond KeyLen
MaxExtra == 1
\* processes running at the same time: 1 .. NumProcs
NumProcs == 2

---------------------------------------------------------------------------
(* Bytes and byte strings *)

Mod256(n) == n % 256

SubSeqFrom(s, a) == SubSeq(s, a, Len(s))

\* x with bit b (0..7) inverted
FlipBit(x, b) ==
    LET w == 2 ^ b
    IN  IF (x \div w) % 2 = 1 THEN x - w ELSE x + w

\* s with bit b of byte i inverted
FlipAt(s, i, b) == [s EXCEPT ![i] = FlipBit(s[i], b)]

\* a and b have the same length and differ in exactly one bit
OneBitApart(a, b) ==
    /\ Len(a) = Len(b)
    /\ \E i \in 1..Len(a) :
          /\ \E bit \in 0..7 : b[i] = FlipBit(a[i], bit)
          /\ \A j \in 1..Len(a) : j # i => a[j] = b[j]

\* sum of the bytes of s at positions congruent to j modulo n (1-based j)
RECURSIVE LaneSum(_, _, _, _)
LaneSum(s, j, n, i) ==
    IF i > Len(s) THEN 0
    ELSE (IF (i - 1) % n = j - 1 THEN s[i] ELSE 0) + LaneSum(s, j, n, i + 1)

\* s, closed by a marker byte, folded into n lanes
Fold(s, n) == [j \in 1..n |-> Mod256(LaneSum(Append(s, 128), j, n, 1))]

---------------------------------------------------------------------------
(* Result<T>: Ok(v), Err(kind), or a panic that aborts the process *)

Ok(v) == [tag |-> "Ok", val |-> v]
Err(kind) == [tag |-> "Err", kind |-> kind]
Panic == [tag |-> "Panic"]

IsOk(r) == r.tag = "Ok"
IsErr(r) == r.tag = "Err"
IsErrOf(r, kind) == r.tag = "Err" /\ r.kind = kind

\* <[u8; N]>::try_from(&[u8]): the slice must have exactly N bytes
TryInto(bytes, n) ==
    IF Len(bytes) = n THEN Ok(bytes) ELSE Err("TryFromSliceError")

---------------------------------------------------------------------------
(* External primitives *)

\* blake3::keyed_hash(&key, &buf): 32 bytes, deterministic in (key, buf)
keyed_hash(key, buf) ==
    LET m == Fold(buf, HashLen)
    IN  [i \in 1..HashLen |-> Mod256(key[i] + m[i])]

\* SigningKey::verifying_key(): the public key of a 32-byte seed;
\* the top bit of the last byte is clear in every encoding it produces
verifying_key(sk) ==
    [i \in 1..KeyLen |->
        IF i = KeyLen THEN (5 * sk[i] + 3 * i + 1) % 128
        ELSE Mod256(5 * sk[i] + 3 * i + 1)]

\* VerifyingKey::from_bytes: Err when the bytes do not decompress to a point
IsPoint(pk) == pk[KeyLen] < 128

\* the challenge of a signature: depends on R, the public key and the message
Challenge(R, pk, msg) ==
    LET m == Fold(msg, KeyLen)
    IN  [i \in 1..KeyLen |-> Mod256(R[i] + 3 * pk[i] + 7 * m[i])]

\* SigningKey::sign(&buf): deterministic, 64 bytes R || s
dalek_sign(sk, msg) ==
    LET m == Fold(msg, KeyLen)
        R == [i \in 1..KeyLen |-> Mod256(11 * sk[i] + 13 * m[i] + i)]
        s == Challenge(R, verifying_key(sk), msg)
    IN  R \o s

\* VerifyingKey::verify(&buf, &sig): Ok(()) iff the verification equation holds
dalek_verify(pk, msg, sig) ==
    LET R == SubSeq(sig, 1, KeyLen)
        s == SubSeq(sig, KeyLen + 1, SigLen)
    IN  s = Challenge(R, pk, msg)

\* ChaCha20 keystream byte i under (key, nonce)
KeyStream(key, nonce, i) ==
    Mod256(key[((i - 1) % KeyLen) + 1] + nonce[((i - 1) % NonceLen) + 1] + i)

\* Poly1305 tag over nonce and ciphertext under key
Mac(key, nonce, ct) ==
    LET m == Fold(nonce \o ct, TagLen)
    IN  [j \in 1..TagLen |-> Mod256(key[j] + 3 * key[j + TagLen] + m[j])]

\* Aead::encrypt(&nonce, plaintext): ciphertext || tag
aead_encrypt(key, nonce, pt) ==
    LET ct == [i \in 1..Len(pt) |-> Mod256(pt[i] + KeyStream(key, nonce, i))]
    IN  Ok(ct \o Mac(key, nonce, ct))

\* Aead::decrypt(&nonce, ciphertext || tag): Err(aead::Error) when the input
\* is shorter than a tag or the tag does not match; the plaintext otherwise
aead_decrypt(key, nonce, buf) ==
    IF Len(buf) < TagLen THEN Err("aead::Error")
    ELSE LET n == Len(buf) - TagLen
             ct == SubSeq(buf, 1, n)
             tag == SubSeqFrom(buf, n + 1)
         IN  IF tag # Mac(key, nonce, ct) THEN Err("aead::Error")
             ELSE Ok([i \in 1..n |->
                        Mod256(ct[i] + 256 - KeyStream(key, nonce, i))])

---------------------------------------------------------------------------
(* Inputs *)

\* input data: Data(0) is empty; Data(2k-1) and Data(2k) differ in one bit
Data(n) ==
    [i \in 1..((n + 1) \div 2) |->
        IF i = (n + 1) \div 2 THEN 72 + (n % 2) ELSE 100 + i]

Datas == {Data(n) : n \in 0..MaxData}

\* what the r-th draw of OsRng yields as 32 seed bytes
Seed(r) == [i \in 1..KeyLen |-> Mod256(100 * r + 11 * i)]

\* what the r-th draw of OsRng yields as a nonce
NonceOf(r) == [i \in 1..NonceLen |-> Mod256(200 * r + 3 * i)]

Draws == 1..NumSeeds

NonceDraws == 1..NumNonces

\* a key file of n bytes; files of different lengths agree on their prefix
KeyFile(n) == [i \in 1..n |-> Mod256(17 + 29 * i)]

KeyFileLens == 0..(KeyLen + MaxExtra)

---------------------------------------------------------------------------
(* The file system: path -> content *)

FixturePath == "fixtures/key.bin"

Paths == {FixturePath, "blake3.txt", "ed25519.sk", "ed25519.pk"}

NoFile == [exists |-> FALSE, bytes |-> <<>>]
File(bytes) == [exists |-> TRUE, bytes |-> bytes]

\* the value parser of every --key argument
verify_file_exists(files, path) == files[path].exists

\* fs::read(path)
fs_read(files, path) ==
    IF files[path].exists THEN Ok(files[path].bytes) ELSE Err("io::Error")

---------------------------------------------------------------------------
(* Key construction and loading *)

\* a range index &key[0..n] panics when the slice is shorter than n
ChaCha20Poly1305_try_new(key) ==
    IF Len(key) < KeyLen THEN Panic
    ELSE Ok(SubSeq(key, 1, KeyLen))

ChaCha20Poly1305_load(files, path) ==
    LET key == fs_read(files, path)
    IN  IF ~IsOk(key) THEN key ELSE ChaCha20Poly1305_try_new(key.val)

\* variant: the key is the last 32 bytes of the slice
Blake3_try_new_tail(key) ==
    IF Len(key) < KeyLen THEN Panic
    ELSE Ok(SubSeq(key, Len(key) - KeyLen + 1, Len(key)))

Blake3_try_new(key) ==
    IF Len(key) < KeyLen THEN Panic
    ELSE Ok(SubSeq(key, 1, KeyLen))

Blake3_load(files, path) ==
    LET key == fs_read(files, path)
    IN  IF ~IsOk(key) THEN key ELSE Blake3_try_new(key.val)

\* variant: the seed is cut from the front of the slice, as for the
\* symmetric keys
Ed25519Signer_try_new_truncating(key) ==
    IF Len(key) < KeyLen THEN Err("TryFromSliceError")
    ELSE Ok(SubSeq(key, 1, KeyLen))

\* SigningKey::from_bytes(key.try_into()?): the seed is the whole slice
Ed25519Signer_try_new(key) == TryInto(key, KeyLen)

Ed25519Signer_load(files, path) ==
    LET key == fs_read(files, path)
    IN  IF ~IsOk(key) THEN key ELSE Ed25519Signer_try_new(key.val)

\* VerifyingKey::from_bytes(key.try_into()?)?
Ed25519Verifier_try_new(key) ==
    LET arr == TryInto(key, KeyLen)
    IN  IF ~IsOk(arr) THEN arr
        ELSE IF ~IsPoint(arr.val) THEN Err("SignatureError")
        ELSE Ok(arr.val)

Ed25519Verifier_load(files, path) ==
    LET key == fs_read(files, path)
    IN  IF ~IsOk(key) THEN key ELSE Ed25519Verifier_try_new(key.val)

Schemes == {"Blake3", "Ed25519Signer", "Ed25519Verifier", "ChaCha20Poly1305"}

KeyLoader_load(scheme, files, path) ==
    CASE scheme = "Blake3" -> Blake3_load(files, path)
      [] scheme = "Ed25519Signer" -> Ed25519Signer_load(files, path)
      [] scheme = "Ed25519Verifier" -> Ed25519Verifier_load(files, path)
      [] scheme = "ChaCha20Poly1305" -> ChaCha20Poly1305_load(files, path)

---------------------------------------------------------------------------
(* Sign / verify *)

\* variant: the comparison stops one byte early
SliceEq_stops_early(a, b) ==
    /\ Len(a) = Len(b)
    /\ \A i \in 1..(Len(a) - 1) : a[i] = b[i]

\* hash == signature, &[u8; 32] against &[u8]: equal lengths, equal bytes
SliceEq(a, b) ==
    /\ Len(a) = Len(b)
    /\ \A i \in 1..Len(a) : a[i] = b[i]

Blake3_sign(key, buf) == Ok(keyed_hash(key, buf))

\* variant: signature.starts_with(hash)
Blake3_verify_prefix(key, buf, signature) ==
    LET hash == keyed_hash(key, buf)
    IN  Ok(/\ Len(signature) >= Len(hash)
           /\ SubSeq(signature, 1, Len(hash)) = hash)

Blake3_verify(key, buf, signature) ==
    LET hash == keyed_hash(key, buf)
    IN  Ok(SliceEq(hash, signature))

Ed25519Signer_sign(key, buf) == Ok(dalek_sign(key, buf))

\* variant: self.key.verify(&buf, &sig)?; Ok(true)
Ed25519Verifier_verify_strict(key, buf, sig) ==
    LET arr == TryInto(sig, SigLen)
    IN  IF ~IsOk(arr) THEN arr
        ELSE IF dalek_verify(key, buf, arr.val) THEN Ok(TRUE)
        ELSE Err("SignatureError")

Ed25519Verifier_verify(key, buf, sig) ==
    LET arr == TryInto(sig, SigLen)
    IN  IF ~IsOk(arr) THEN arr
        ELSE Ok(dalek_verify(key, buf, arr.val))

Formats == {"blake3", "ed25519"}

\* process_text_sign without the base64 armoring: load the key, sign
text_sign(files, buf, path, format) ==
    IF format = "blake3"
    THEN LET signer == Blake3_load(files, path)
         IN  IF ~IsOk(signer) THEN signer ELSE Blake3_sign(signer.val, buf)
    ELSE LET signer == Ed25519Signer_load(files, path)
         IN  IF ~IsOk(signer) THEN signer
             ELSE Ed25519Signer_sign(signer.val, buf)

\* variant: the format tag is not consulted
text_verify_one_scheme(files, buf, path, format, signature) ==
    LET verifier == Blake3_load(files, path)
    IN  IF ~IsOk(verifier) THEN verifier
        ELSE Blake3_verify(verifier.val, buf, signature)

\* process_text_verify on a decoded signature: load the key, verify
text_verify(files, buf, path, format, signature) ==
    IF format = "blake3"
    THEN LET verifier == Blake3_load(files, path)
         IN  IF ~IsOk(verifier) THEN verifier
             ELSE Blake3_verify(verifier.val, buf, signature)
    ELSE LET verifier == Ed25519Verifier_load(files, path)
         IN  IF ~IsOk(verifier) THEN verifier
             ELSE Ed25519Verifier_verify(verifier.val, buf, signature)

---------------------------------------------------------------------------
(* Encrypt / decrypt *)

\* variant: the nonce is taken from the key instead of the random source
ChaCha20Poly1305_encrypt_key_nonce(key, buf, nonce) ==
    LET derived == SubSeq(key, 1, NonceLen)
        encrypted == aead_encrypt(key, derived, buf)
    IN  IF ~IsOk(encrypted) THEN Err("Error encrypting data")
        ELSE Ok(derived \o encrypted.val)

ChaCha20Poly1305_encrypt(key, buf, nonce) ==
    LET encrypted == aead_encrypt(key, nonce, buf)
    IN  IF ~IsOk(encrypted) THEN Err("Error encrypting data")
        ELSE Ok(nonce \o encrypted.val)

\* variant: the ciphertext is taken from byte 12 instead of byte 13
ChaCha20Poly1305_decrypt_split(key, buf) ==
    IF Len(buf) < NonceLen THEN Err("Invalid data")
    ELSE LET nonce == SubSeq(buf, 1, NonceLen)
             encrypted == SubSeqFrom(buf, NonceLen)
             decrypted == aead_decrypt(key, nonce, encrypted)
         IN  IF ~IsOk(decrypted) THEN Err("Error decrypting data")
             ELSE decrypted

\* variant: .unwrap_or_default() in place of map_err(..)?
ChaCha20Poly1305_decrypt_lenient(key, buf) ==
    IF Len(buf) < NonceLen THEN Err("Invalid data")
    ELSE LET nonce == SubSeq(buf, 1, NonceLen)
             encrypted == SubSeqFrom(buf, NonceLen + 1)
             decrypted == aead_decrypt(key, nonce, encrypted)
         IN  IF ~IsOk(decrypted) THEN Ok(<<>>)
             ELSE decrypted

\* variant: no length check, so &buf[0..12] panics on a short buffer
ChaCha20Poly1305_decrypt_unchecked(key, buf) ==
    IF Len(buf) < NonceLen THEN Panic
    ELSE LET nonce == SubSeq(buf, 1, NonceLen)
             encrypted == SubSeqFrom(buf, NonceLen + 1)
             decrypted == aead_decrypt(key, nonce, encrypted)
         IN  IF ~IsOk(decrypted) THEN Err("Error decrypting data")
             ELSE decrypted

\* variant: a payload that is only a nonce decrypts to the empty plaintext
ChaCha20Poly1305_decrypt_bare_nonce(key, buf) ==
    IF Len(buf) < NonceLen THEN Err("Invalid data")
    ELSE IF Len(buf) = NonceLen THEN Ok(<<>>)
    ELSE LET nonce == SubSeq(buf, 1, NonceLen)
             encrypted == SubSeqFrom(buf, NonceLen + 1)
             decrypted == aead_decrypt(key, nonce, encrypted)
         IN  IF ~IsOk(decrypted) THEN Err("Error decrypting data")
             ELSE decrypted

ChaCha20Poly1305_decrypt(key, buf) ==
    IF Len(buf) < NonceLen THEN Err("Invalid data")
    ELSE LET nonce == SubSeq(buf, 1, NonceLen)
             encrypted == SubSeqFrom(buf, NonceLen + 1)
             decrypted == aead_decrypt(key, nonce, encrypted)
         IN  IF ~IsOk(decrypted) THEN Err("Error decrypting data")
             ELSE decrypted

\* process_text_encrypt without the armoring
text_encrypt(files, buf, path, nonce) ==
    LET encryptor == ChaCha20Poly1305_load(files, path)
    IN  IF ~IsOk(encryptor) THEN encryptor
        ELSE ChaCha20Poly1305_encrypt(encryptor.val, buf, nonce)

\* process_text_decrypt on a decoded payload, before the UTF-8 conversion
text_decrypt(files, buf, path) ==
    LET decryptor == ChaCha20Poly1305_load(files, path)
    IN  IF ~IsOk(decryptor) THEN decryptor
        ELSE ChaCha20Poly1305_decrypt(decryptor.val, buf)

---------------------------------------------------------------------------
(* Key generation *)

\* "ABCDEFGHIJKLMNPQRSTUVWXYZ"
UPPER == <<65, 66, 67, 68, 69, 70, 71, 72, 73, 74, 75, 76, 77, 78,
           80, 81, 82, 83, 84, 85, 86, 87, 88, 89, 90>>
\* "abcdefghijkmnopqrstuvwxyz"
LOWERCASE == <<97, 98, 99, 100, 101, 102, 103, 104, 105, 106, 107, 109, 110,
               111, 112, 113, 114, 115, 116, 117, 118, 119, 120, 121, 122>>
\* "123456789"
NUMBERS == <<49, 50, 51, 52, 53, 54, 55, 56, 57>>
\* "!@#$%^&*_"
SYMBOLS == <<33, 64, 35, 36, 37, 94, 38, 42, 95>>

Pick(chars, k) == chars[(k % Len(chars)) + 1]

Rotate(s, k) == [i \in 1..Len(s) |-> s[((i - 1 + k) % Len(s)) + 1]]

\* process_genpass(length, true, true, true, true) on the r-th draw of the
\* generator: one character of each class, the rest from all four, shuffled
process_genpass(length, r) ==
    LET chars == UPPER \o LOWERCASE \o NUMBERS \o SYMBOLS
        head == <<Pick(UPPER, r), Pick(LOWERCASE, 3 * r),
                  Pick(NUMBERS, 5 * r), Pick(SYMBOLS, 7 * r)>>
        rest == [i \in 1..(length - 4) |-> Pick(chars, 13 * r + 7 * i)]
    IN  Rotate(head \o rest, r)

Blake3_generate(r) ==
    LET key == process_genpass(32, r)
    IN  Ok(<<key>>)

Ed25519Signer_generate(r) ==
    LET sk == Seed(r)
        pk == verifying_key(sk)
    IN  Ok(<<sk, pk>>)

process_generate_key(format, r) ==
    IF format = "blake3" THEN Blake3_generate(r) ELSE Ed25519Signer_generate(r)

\* variant: the two artifacts go to each other's file
KeyGen_writes_swapped(files, format, keys) ==
    IF format = "blake3"
    THEN [files EXCEPT !["blake3.txt"] = File(keys[1])]
    ELSE [files EXCEPT !["ed25519.sk"] = File(keys[2]),
                       !["ed25519.pk"] = File(keys[1])]

\* TextKeyGenOpts::execute: the files written into the output directory
KeyGen_writes(files, format, keys) ==
    IF format = "blake3"
    THEN [files EXCEPT !["blake3.txt"] = File(keys[1])]
    ELSE [files EXCEPT !["ed25519.sk"] = File(keys[1]),
                       !["ed25519.pk"] = File(keys[2])]

---------------------------------------------------------------------------
(* State                                                                   *)
(*   fs    the key files                                                   *)
(*   out   what the latest successful sign / encrypt returned, with the    *)
(*         key, data and nonce it was made from                            *)
(*   last  the latest call: its arguments and its result                   *)

NoOut ==
    [kind |-> "none", bytes |-> <<>>, format |-> "", path |-> "",
     key |-> <<>>, data |-> <<>>, nonce |-> <<>>]

InitFs(n) ==
    [p \in Paths |-> IF p = FixturePath THEN File(KeyFile(n)) ELSE NoFile]

EmptyFs == [p \in Paths |-> NoFile]

Procs == 1..NumProcs

\* no process has been started
NoProcs == [p \in Procs |-> [pc |-> "idle"]]

Init ==
    /\ fs = EmptyFs
    /\ out = NoOut
    /\ last = [op |-> "start"]
    /\ procs = NoProcs

\* verify, decrypt and load write nothing (fs and out stay as they are), so a
\* behaviour is followed up to the first of them
Running == last.op \in {"start", "generate", "sign", "encrypt"}

\* the first and the last byte of a buffer of len bytes, and the bytes on
\* either side of the field boundary after byte edge
TamperIdx(len, edge) == {1, edge, edge + 1, len} \cap (1..len)

\* b with one bit inverted, at each of these positions
Flipped(b, edge) ==
    {FlipAt(b, i, (i - 1) % 8) : i \in TamperIdx(Len(b), edge)}

\* what a caller may pass to verify in place of the signature b
SuppliedSigs(b) ==
    {b, Append(b, 0), <<>>} \cup Flipped(b, KeyLen)
        \cup (IF Len(b) > 0 THEN {SubSeq(b, 1, Len(b) - 1)} ELSE {})

\* what a caller may pass to decrypt in place of the payload b
SuppliedPayloads(b) ==
    {b, Append(b, 0)} \cup Flipped(b, NonceLen)
        \cup {SubSeq(b, 1, n) : n \in {m \in 0..NonceLen : m <= Len(b)}}
        \cup (IF Len(b) > 0 THEN {SubSeq(b, 1, Len(b) - 1)} ELSE {})

---------------------------------------------------------------------------
(* Actions *)

\* rcli text generate --format <format>
KeyGen(format, r) ==
    /\ Running
    /\ LET keys == process_generate_key(format, r)
       IN  /\ fs' = KeyGen_writes(fs, format, keys.val)
           /\ last' = [op |-> "generate", format |-> format, res |-> keys]
    /\ UNCHANGED <<out, procs>>

\* rcli text sign; the argument parser admits only a key file that exists
Sign(format, path, data) ==
    /\ Running
    /\ verify_file_exists(fs, path)
    /\ LET res == text_sign(fs, data, path, format)
           scheme == IF format = "blake3" THEN "Blake3" ELSE "Ed25519Signer"
       IN  /\ last' = [op |-> "sign", format |-> format, path |-> path,
                       data |-> data, res |-> res]
           /\ out' = IF IsOk(res)
                     THEN [kind |-> "sig", bytes |-> res.val,
                           format |-> format, path |-> path,
                           key |-> KeyLoader_load(scheme, fs, path).val,
                           data |-> data, nonce |-> <<>>]
                     ELSE out
    /\ UNCHANGED <<fs, procs>>

\* rcli text verify
Verify(format, path, data, sig) ==
    /\ Running
    /\ verify_file_exists(fs, path)
    /\ last' = [op |-> "verify", format |-> format, path |-> path,
                data |-> data, sig |-> sig,
                res |-> text_verify(fs, data, path, format, sig)]
    /\ UNCHANGED <<fs, out, procs>>

\* rcli text encrypt, with the r-th draw of the nonce
Encrypt(path, data, r) ==
    /\ Running
    /\ verify_file_exists(fs, path)
    /\ LET nonce == NonceOf(r)
           res == text_encrypt(fs, data, path, nonce)
       IN  /\ last' = [op |-> "encrypt", path |-> path, data |-> data,
                       res |-> res]
           /\ out' = IF IsOk(res)
                     THEN [kind |-> "payload", bytes |-> res.val,
                           format |-> "chacha20poly1305", path |-> path,
                           key |-> ChaCha20Poly1305_load(fs, path).val,
                           data |-> data, nonce |-> nonce]
                     ELSE out
    /\ UNCHANGED <<fs, procs>>

\* rcli text decrypt
Decrypt(path, payload) ==
    /\ Running
    /\ verify_file_exists(fs, path)
    /\ last' = [op |-> "decrypt", path |-> path, payload |-> payload,
                res |-> text_decrypt(fs, payload, path)]
    /\ UNCHANGED <<fs, out, procs>>

\* KeyLoader::load of one scheme on one file
Load(scheme, path) ==
    /\ Running
    /\ last' = [op |-> "load", scheme |-> scheme, path |-> path,
                res |-> KeyLoader_load(scheme, fs, path)]
    /\ UNCHANGED <<fs, out, procs>>

---------------------------------------------------------------------------
(* Specifications *)

\* key generation, signing, verification
Next ==
    \/ \E format \in Formats, r \in Draws : KeyGen(format, r)
    \/ \E format \in Formats, path \in Paths, data \in Datas :
          Sign(format, path, data)
    \/ \E format \in Formats, path \in Paths, data \in Datas,
          sig \in SuppliedSigs(out.bytes) :
          Verify(format, path, data, sig)

Spec == Init /\ [][Next]_vars

\* key generation, encryption, decryption
NextEnc ==
    \/ \E format \in Formats, r \in Draws : KeyGen(format, r)
    \/ \E path \in Paths, data \in Datas, r \in NonceDraws :
          Encrypt(path, data, r)
    \/ \E path \in Paths, payload \in SuppliedPayloads(out.bytes) :
          Decrypt(path, payload)

SpecEnc == Init /\ [][NextEnc]_vars

\* key loading, over key files of every length up to KeyLen + MaxExtra
InitLoad ==
    /\ \E n \in KeyFileLens : fs = InitFs(n)
    /\ out = NoOut
    /\ last = [op |-> "start"]
    /\ procs = NoProcs

NextLoad ==
    \/ \E format \in Formats, r \in Draws : KeyGen(format, r)
    \/ \E scheme \in Schemes, path \in Paths : Load(scheme, path)

SpecLoad == InitLoad /\ [][NextLoad]_vars

---------------------------------------------------------------------------
(* Properties *)

\* the latest call is a decrypt under the key that made the payload in out
DecryptsUnderSameKey ==
    /\ last.op = "decrypt"
    /\ out.kind = "payload"
    /\ ChaCha20Poly1305_load(fs, last.path) = Ok(out.key)

\* the latest call is a decrypt under a key other than the one that made the
\* payload in out
DecryptsUnderOtherKey ==
    /\ last.op = "decrypt"
    /\ out.kind = "payload"
    /\ IsOk(ChaCha20Poly1305_load(fs, last.path))
    /\ ChaCha20Poly1305_load(fs, last.path).val # out.key

\* C1: decrypting, under the same cipher key, exactly the payload that
\* encrypt returned for plaintext P succeeds and returns P, whichever nonce
\* was drawn and also when P is empty.
C1_RoundTrip ==
    (DecryptsUnderSameKey /\ last.payload = out.bytes)
        => (IsOk(last.res) /\ last.res.val = out.data)

C1_Witness ==
    /\ DecryptsUnderSameKey
    /\ last.payload = out.bytes
    /\ Len(out.data) > 0
    /\ out.nonce = NonceOf(NumNonces)
    /\ IsOk(last.res)

C1_WitnessEmpty ==
    /\ DecryptsUnderSameKey
    /\ last.payload = out.bytes
    /\ out.data = <<>>
    /\ IsOk(last.res)

\* the tag of payload p (nonce || ciphertext || tag) verifies under key k
TagVerifies(k, p) ==
    /\ Len(p) >= NonceLen + TagLen
    /\ SubSeqFrom(p, Len(p) - TagLen + 1)
          = Mac(k, SubSeq(p, 1, NonceLen),
                SubSeq(p, NonceLen + 1, Len(p) - TagLen))

\* C4: a payload of at least 12 bytes whose tag does not verify under the
\* decrypting key makes decrypt return the decryption error, never plaintext;
\* this covers a payload with one bit of its nonce, ciphertext or tag flipped
\* after encryption, and an unaltered payload decrypted under another key.
C4_AuthFailureIsHard ==
    /\ (/\ last.op = "decrypt"
        /\ IsOk(ChaCha20Poly1305_load(fs, last.path))
        /\ Len(last.payload) >= NonceLen
        /\ ~TagVerifies(ChaCha20Poly1305_load(fs, last.path).val,
                        last.payload))
          => last.res = Err("Error decrypting data")
    /\ (DecryptsUnderSameKey /\ OneBitApart(last.payload, out.bytes))
          => last.res = Err("Error decrypting data")
    /\ (DecryptsUnderOtherKey /\ last.payload = out.bytes)
          => last.res = Err("Error decrypting data")

C4_Witness ==
    /\ DecryptsUnderSameKey
    /\ Len(out.data) > 0
    /\ last.payload = FlipAt(out.bytes, NonceLen + 1, NonceLen % 8)
    /\ last.res = Err("Error decrypting data")

C4_WitnessOtherKey ==
    /\ DecryptsUnderOtherKey
    /\ last.payload = out.bytes
    /\ last.res = Err("Error decrypting data")

\* C5: a payload of 0 to 11 bytes makes decrypt fail with the "Invalid data"
\* error of the length check, which is not the decryption error.
C5_ShortPayload ==
    (/\ last.op = "decrypt"
     /\ IsOk(ChaCha20Poly1305_load(fs, last.path))
     /\ Len(last.payload) < NonceLen)
        => (/\ last.res = Err("Invalid data")
            /\ last.res # Err("Error decrypting data"))

C5_Witness ==
    /\ last.op = "decrypt"
    /\ IsOk(ChaCha20Poly1305_load(fs, last.path))
    /\ Len(last.payload) = NonceLen - 1
    /\ last.res = Err("Invalid data")

C5_WitnessEmpty ==
    /\ last.op = "decrypt"
    /\ IsOk(ChaCha20Poly1305_load(fs, last.path))
    /\ last.payload = <<>>
    /\ last.res = Err("Invalid data")

\* the latest call is a keyed-hash verify under the key that made the
\* signature in out
Blake3VerifiesUnderSameKey ==
    /\ last.op = "verify"
    /\ last.format = "blake3"
    /\ out.kind = "sig"
    /\ out.format = "blake3"
    /\ Blake3_load(fs, last.path) = Ok(out.key)

\* the latest call is an Ed25519 verify under the public key of the signing
\* key that made the signature in out
Ed25519VerifiesUnderPublicKey ==
    /\ last.op = "verify"
    /\ last.format = "ed25519"
    /\ out.kind = "sig"
    /\ out.format = "ed25519"
    /\ Ed25519Verifier_load(fs, last.path) = Ok(verifying_key(out.key))

VerifiesUnderMatchingKey ==
    Blake3VerifiesUnderSameKey \/ Ed25519VerifiesUnderPublicKey

\* C2: under either scheme, verifying data D against the signature that sign
\* returned for D, with the matching key, returns Ok(true).
C2_SignVerifyRoundTrip ==
    (/\ VerifiesUnderMatchingKey
     /\ last.data = out.data
     /\ last.sig = out.bytes)
        => last.res = Ok(TRUE)

C2_Witness ==
    /\ Ed25519VerifiesUnderPublicKey
    /\ last.data = out.data
    /\ Len(last.data) > 0
    /\ last.sig = out.bytes
    /\ last.res = Ok(TRUE)

C2_WitnessBlake3 ==
    /\ Blake3VerifiesUnderSameKey
    /\ last.data = out.data
    /\ last.sig = out.bytes
    /\ last.res = Ok(TRUE)

\* C3: under either scheme and with the matching key, verifying data one bit
\* away from the signed data against the genuine signature, or the signed
\* data against a signature one bit away from the genuine one, returns
\* Ok(false).
C3_TamperDetected ==
    (/\ VerifiesUnderMatchingKey
     /\ \/ OneBitApart(last.data, out.data) /\ last.sig = out.bytes
        \/ last.data = out.data /\ OneBitApart(last.sig, out.bytes))
        => last.res = Ok(FALSE)

C3_Witness ==
    /\ Blake3VerifiesUnderSameKey
    /\ last.data = out.data
    /\ last.sig = FlipAt(out.bytes, HashLen, (HashLen - 1) % 8)
    /\ last.res = Ok(FALSE)

C3_WitnessData ==
    /\ Ed25519VerifiesUnderPublicKey
    /\ OneBitApart(last.data, out.data)
    /\ last.sig = out.bytes
    /\ last.res = Ok(FALSE)

\* C8: with a loaded public key, Ed25519 verify returns the slice-conversion
\* error exactly when the supplied signature is not 64 bytes long; a 64-byte
\* signature gets Ok(true) or Ok(false), and Ok(false) when it is the genuine
\* signature of other data or one bit away from the genuine signature.
C8_MalformedVersusInvalid ==
    (/\ last.op = "verify"
     /\ last.format = "ed25519"
     /\ IsOk(Ed25519Verifier_load(fs, last.path)))
        => /\ IsErr(last.res) <=> Len(last.sig) # SigLen
           /\ IsErr(last.res) => last.res = Err("TryFromSliceError")
           /\ Len(last.sig) = SigLen
                 => (IsOk(last.res) /\ last.res.val \in BOOLEAN)
           /\ (/\ Ed25519VerifiesUnderPublicKey
               /\ \/ last.data # out.data /\ last.sig = out.bytes
                  \/ OneBitApart(last.sig, out.bytes))
                 => last.res = Ok(FALSE)

C8_Witness ==
    /\ Ed25519VerifiesUnderPublicKey
    /\ last.data # out.data
    /\ last.sig = out.bytes
    /\ last.res = Ok(FALSE)

C8_WitnessMalformed ==
    /\ Ed25519VerifiesUnderPublicKey
    /\ Len(last.sig) = SigLen + 1
    /\ last.res = Err("TryFromSliceError")

\* C9: with a loaded key, keyed-hash verify returns Ok(true) exactly when the
\* supplied bytes equal the 32-byte keyed hash of the data and Ok(false)
\* otherwise, whatever their length; it returns no error.
C9_Blake3VerifyTotal ==
    (/\ last.op = "verify"
     /\ last.format = "blake3"
     /\ IsOk(Blake3_load(fs, last.path)))
        => /\ IsOk(last.res)
           /\ last.res.val \in BOOLEAN
           /\ last.res.val
                 <=> last.sig = keyed_hash(Blake3_load(fs, last.path).val,
                                           last.data)
           /\ Len(last.sig) # HashLen => last.res = Ok(FALSE)

C9_Witness ==
    /\ Blake3VerifiesUnderSameKey
    /\ last.data = out.data
    /\ last.sig = Append(out.bytes, 0)
    /\ last.res = Ok(FALSE)

C9_WitnessShort ==
    /\ Blake3VerifiesUnderSameKey
    /\ last.data = out.data
    /\ last.sig = SubSeq(out.bytes, 1, HashLen - 1)
    /\ last.res = Ok(FALSE)

\* C10: generating an Ed25519 key returns two 32-byte artifacts, the seed
\* first and its public key second, written to ed25519.sk and ed25519.pk in
\* that order; a signature made with the key loaded from ed25519.sk verifies
\* under the key loaded from ed25519.pk.
C10_KeyGenShape ==
    /\ (last.op = "generate" /\ last.format = "ed25519")
          => /\ IsOk(last.res)
             /\ Len(last.res.val) = 2
             /\ Len(last.res.val[1]) = KeyLen
             /\ Len(last.res.val[2]) = KeyLen
             /\ last.res.val[2] = verifying_key(last.res.val[1])
             /\ fs["ed25519.sk"] = File(last.res.val[1])
             /\ fs["ed25519.pk"] = File(last.res.val[2])
    /\ (/\ last.op = "verify"
        /\ last.format = "ed25519"
        /\ last.path = "ed25519.pk"
        /\ out.kind = "sig"
        /\ out.format = "ed25519"
        /\ out.path = "ed25519.sk"
        /\ fs["ed25519.sk"] = File(out.key)
        /\ last.data = out.data
        /\ last.sig = out.bytes)
          => last.res = Ok(TRUE)

C10_Witness ==
    /\ last.op = "verify"
    /\ last.format = "ed25519"
    /\ last.path = "ed25519.pk"
    /\ out.kind = "sig"
    /\ out.format = "ed25519"
    /\ out.path = "ed25519.sk"
    /\ fs["ed25519.sk"] = File(out.key)
    /\ last.data = out.data
    /\ last.sig = out.bytes
    /\ last.res = Ok(TRUE)

C10_WitnessGenerate ==
    /\ last.op = "generate"
    /\ last.format = "ed25519"
    /\ fs["ed25519.sk"] = File(Seed(NumSeeds))

\* the latest call loaded a key of this scheme from a file that exists
Loaded(scheme) ==
    /\ last.op = "load"
    /\ last.scheme = scheme
    /\ fs[last.path].exists

\* C6: loading a keyed-hash key or a cipher key from a file of fewer than 32
\* bytes returns an error result to the caller.
C6_ShortKeyIsTypedError ==
    (/\ Loaded("Blake3") \/ Loaded("ChaCha20Poly1305")
     /\ Len(fs[last.path].bytes) < KeyLen)
        => IsErr(last.res)

\* C7 as stated: every signing-key file of 32 or more bytes loads, and the
\* key is the seed formed by its first 32 bytes.
C7_OversizedSignerKeyLoads ==
    (Loaded("Ed25519Signer") /\ Len(fs[last.path].bytes) >= KeyLen)
        => last.res = Ok(SubSeq(fs[last.path].bytes, 1, KeyLen))

\* C7 as amended: a signing-key file loads exactly when it holds 32 bytes,
\* the key being the seed formed by these bytes; a file of any other length,
\* longer ones included, is rejected with the slice-conversion error.
C7_SignerKeyExactLength ==
    Loaded("Ed25519Signer")
        => IF Len(fs[last.path].bytes) = KeyLen
           THEN last.res = Ok(fs[last.path].bytes)
           ELSE last.res = Err("TryFromSliceError")

C7_Witness ==
    /\ Loaded("Ed25519Signer")
    /\ Len(fs[last.path].bytes) = KeyLen + MaxExtra
    /\ last.res = Err("TryFromSliceError")

C7_WitnessExact ==
    /\ Loaded("Ed25519Signer")
    /\ last.path = FixturePath
    /\ Len(fs[last.path].bytes) = KeyLen
    /\ IsOk(last.res)

\* this step is a successful encrypt
EncryptStep ==
    /\ last'.op = "encrypt"
    /\ IsOk(last'.res)
    /\ <<out, last>> # <<out', last'>>

\* this step is a successful encrypt under the key of the payload already
\* in out
EncryptAgainStep ==
    /\ EncryptStep
    /\ out.kind = "payload"
    /\ out'.key = out.key

NoncePrefix(payload) == SubSeq(payload, 1, NonceLen)

\* C11 as stated: no two encrypt calls under the same key return payloads
\* with the same 12-byte prefix.
C11_NoNonceReuse ==
    [][EncryptAgainStep => NoncePrefix(out'.bytes) # NoncePrefix(out.bytes)]_vars

\* C11 as amended: every encrypt call uses as its nonce exactly the 12 bytes
\* the random source returned to that call, and returns them as the prefix of
\* the payload, whatever the key, the plaintext and the previous call; two
\* calls under one key share the prefix exactly when the random source
\* returned the same bytes to both.
C11_NonceIsTheDraw ==
    [][/\ EncryptStep
          => /\ NoncePrefix(out'.bytes) = out'.nonce
             /\ \E r \in NonceDraws : out'.nonce = NonceOf(r)
       /\ EncryptAgainStep
          => (NoncePrefix(out'.bytes) = NoncePrefix(out.bytes)
                <=> out'.nonce = out.nonce)]_vars

C11_Witness ==
    /\ last.op = "encrypt"
    /\ IsOk(last.res)
    /\ out.kind = "payload"
    /\ Len(out.data) > 0
    /\ out.nonce = NonceOf(NumNonces)
    /\ NoncePrefix(out.bytes) = NonceOf(NumNonces)

---------------------------------------------------------------------------
(* Several processes at once on the same key files *)

\* the key files the processes share: a fixture key of more than KeyLen
\* bytes and a generated Ed25519 pair
ConcFs ==
    KeyGen_writes(InitFs(KeyLen + MaxExtra), "ed25519",
                  process_generate_key("ed25519", 1).val)

SignPaths(format) ==
    IF format = "blake3" THEN {FixturePath} ELSE {FixturePath, "ed25519.sk"}

VerifyPath(format) ==
    IF format = "blake3" THEN FixturePath ELSE "ed25519.pk"

\* a signature and a payload made earlier with these key files
ConcSigned(format) ==
    text_sign(ConcFs, Data(1),
              IF format = "blake3" THEN FixturePath ELSE "ed25519.sk",
              format).val

ConcPayload == text_encrypt(ConcFs, Data(1), FixturePath, NonceOf(1)).val

\* the command lines a process may be started with; arg is the signature,
\* the payload or the nonce the random source will return
Invocations ==
    UNION {{[op |-> "sign", format |-> f, path |-> p, data |-> Data(1),
             arg |-> <<>>] : p \in SignPaths(f)} : f \in Formats}
    \cup {[op |-> "verify", format |-> f, path |-> VerifyPath(f),
           data |-> d, arg |-> ConcSigned(f)] :
             f \in Formats, d \in {Data(1), Data(MaxData)}}
    \cup {[op |-> "encrypt", format |-> "chacha20poly1305",
           path |-> FixturePath, data |-> Data(1), arg |-> NonceOf(r)] :
             r \in NonceDraws}
    \cup {[op |-> "decrypt", format |-> "chacha20poly1305",
           path |-> FixturePath, data |-> <<>>, arg |-> ConcPayload]}

\* the operation of a command line, run on the files it sees
RunAlone(files, inv) ==
    CASE inv.op = "sign" -> text_sign(files, inv.data, inv.path, inv.format)
      [] inv.op = "verify" ->
            text_verify(files, inv.data, inv.path, inv.format, inv.arg)
      [] inv.op = "encrypt" ->
            text_encrypt(files, inv.data, inv.path, inv.arg)
      [] inv.op = "decrypt" -> text_decrypt(files, inv.arg, inv.path)

\* the rest of the operation once fs::read has returned: the process goes on
\* with the bytes it has read
Complete(inv, read) ==
    IF ~IsOk(read) THEN read
    ELSE RunAlone([q \in Paths |-> IF q = inv.path THEN File(read.val)
                                   ELSE NoFile], inv)

\* variant: the loader writes the 32 bytes it keeps back to the key file
fs_after_load_writeback(files, path) ==
    IF files[path].exists /\ Len(files[path].bytes) >= KeyLen
    THEN [files EXCEPT ![path] = File(SubSeq(files[path].bytes, 1, KeyLen))]
    ELSE files

\* KeyLoader::load only reads the key file
fs_after_load(files, path) == files

\* a process is started with a command line
Invoke(p, inv) ==
    /\ procs[p].pc = "idle"
    /\ procs' = [procs EXCEPT ![p] = [pc |-> "started", inv |-> inv]]
    /\ UNCHANGED <<fs, out, last>>

\* the process reaches fs::read(path) in KeyLoader::load
ReadKey(p) ==
    /\ procs[p].pc = "started"
    /\ procs' = [procs EXCEPT ![p] =
                    [pc |-> "loaded", inv |-> procs[p].inv,
                     read |-> fs_read(fs, procs[p].inv.path)]]
    /\ fs' = fs_after_load(fs, procs[p].inv.path)
    /\ UNCHANGED <<out, last>>

\* the process builds the key, runs the operation and returns
Finish(p) ==
    /\ procs[p].pc = "loaded"
    /\ procs' = [procs EXCEPT ![p] =
                    [pc |-> "done", inv |-> procs[p].inv,
                     res |-> Complete(procs[p].inv, procs[p].read)]]
    /\ UNCHANGED <<fs, out, last>>

InitConc ==
    /\ fs = ConcFs
    /\ out = NoOut
    /\ last = [op |-> "start"]
    /\ procs = NoProcs

NextConc ==
    \/ \E p \in Procs, inv \in Invocations : Invoke(p, inv)
    \/ \E p \in Procs : ReadKey(p)
    \/ \E p \in Procs : Finish(p)

SpecConc == InitConc /\ [][NextConc]_vars

\* C12: whatever sign, verify, encrypt and decrypt processes run at the same
\* time on the same key files and however their steps interleave, no key
\* file's content changes, and every process returns what its command line
\* returns when run alone on these key files (for encrypt: with the same
\* nonce drawn).
C12_ConcurrentSafe ==
    /\ \A path \in Paths : fs[path] = ConcFs[path]
    /\ \A p \in Procs :
          procs[p].pc = "done"
          => procs[p].res = RunAlone(ConcFs, procs[p].inv)

\* one process has returned a signature while another, on the same key
\* file, is between reading the key and decrypting
C12_Witness ==
    \E p, q \in Procs :
        /\ p # q
        /\ procs[p].pc = "done"
        /\ procs[p].inv.op = "sign"
        /\ IsOk(procs[p].res)
        /\ procs[q].pc = "loaded"
        /\ procs[q].inv.op = "decrypt"
        /\ procs[q].inv.path = procs[p].inv.path

---------------------------------------------------------------------------
(* Armoring: base64::engine::general_purpose::URL_SAFE_NO_PAD              *)
(* Text is a sequence of character codes.                                  *)

\* the character of a 6-bit value: A-Z a-z 0-9 - _
B64Char(v) ==
    IF v < 26 THEN 65 + v
    ELSE IF v < 52 THEN 97 + (v - 26)
    ELSE IF v < 62 THEN 48 + (v - 52)
    ELSE IF v = 62 THEN 45
    ELSE 95

\* the 6-bit value of a character, -1 for a character outside the alphabet
\* ('=', '+' and '/' included)
B64Value(c) ==
    IF c >= 65 /\ c <= 90 THEN c - 65
    ELSE IF c >= 97 /\ c <= 122 THEN c - 97 + 26
    ELSE IF c >= 48 /\ c <= 57 THEN c - 48 + 52
    ELSE IF c = 45 THEN 62
    ELSE IF c = 95 THEN 63
    ELSE 0 - 1

RECURSIVE URL_SAFE_NO_PAD_encode(_)
\* three bytes give four characters; a rest of one or two bytes gives two
\* or three characters, with no '=' appended
URL_SAFE_NO_PAD_encode(b) ==
    IF Len(b) = 0 THEN <<>>
    ELSE IF Len(b) = 1
    THEN <<B64Char(b[1] \div 4), B64Char((b[1] % 4) * 16)>>
    ELSE IF Len(b) = 2
    THEN <<B64Char(b[1] \div 4),
           B64Char((b[1] % 4) * 16 + b[2] \div 16),
           B64Char((b[2] % 16) * 4)>>
    ELSE <<B64Char(b[1] \div 4),
           B64Char((b[1] % 4) * 16 + b[2] \div 16),
           B64Char((b[2] % 16) * 4 + b[3] \div 64),
           B64Char(b[3] % 64)>> \o URL_SAFE_NO_PAD_encode(SubSeqFrom(b, 4))

\* the k-th byte coded by the 6-bit values v
B64Byte(v, k) ==
    LET base == 4 * ((k - 1) \div 3)
        j == (k - 1) % 3
    IN  IF j = 0 THEN v[base + 1] * 4 + v[base + 2] \div 16
        ELSE IF j = 1 THEN (v[base + 2] % 16) * 16 + v[base + 3] \div 4
        ELSE (v[base + 3] % 4) * 64 + v[base + 4]

\* fails on a character outside the alphabet (padding included), on a
\* length of 1 modulo 4, and on non-zero bits after the last whole byte
URL_SAFE_NO_PAD_decode(t) ==
    LET n == Len(t)
        v == [i \in 1..n |-> B64Value(t[i])]
        rest == n % 4
        nbytes == 3 * (n \div 4) + (IF rest = 0 THEN 0 ELSE rest - 1)
    IN  IF \E i \in 1..n : v[i] < 0 THEN Err("base64::DecodeError")
        ELSE IF rest = 1 THEN Err("base64::DecodeError")
        ELSE IF rest = 2 /\ v[n] % 16 # 0 THEN Err("base64::DecodeError")
        ELSE IF rest = 3 /\ v[n] % 4 # 0 THEN Err("base64::DecodeError")
        ELSE Ok([k \in 1..nbytes |-> B64Byte(v, k)])

---------------------------------------------------------------------------
(* The dispatch facade on text *)

\* an input source: the bytes it yields, or unreadable
TextInputs ==
    {[readable |-> TRUE, bytes |-> d] : d \in Datas}
        \cup {[readable |-> FALSE, bytes |-> <<>>]}

get_reader(input) ==
    IF input.readable THEN Ok(input.bytes) ELSE Err("io::Error")

process_text_sign(files, input, path, format) ==
    LET reader == get_reader(input)
    IN  IF ~IsOk(reader) THEN reader
        ELSE LET signature == text_sign(files, reader.val, path, format)
             IN  IF ~IsOk(signature) THEN signature
                 ELSE Ok(URL_SAFE_NO_PAD_encode(signature.val))

process_text_verify(files, input, path, format, signature) ==
    LET reader == get_reader(input)
    IN  IF ~IsOk(reader) THEN reader
        ELSE LET decoded == URL_SAFE_NO_PAD_decode(signature)
             IN  IF ~IsOk(decoded) THEN decoded
                 ELSE text_verify(files, reader.val, path, format,
                                  decoded.val)

\* the key files of the facade runs: a fixture key one byte short of KeyLen
\* or of KeyLen bytes, and a generated Ed25519 pair
InitSigText ==
    /\ \E n \in {KeyLen - 1, KeyLen} :
          fs = KeyGen_writes(InitFs(n), "ed25519",
                             process_generate_key("ed25519", 1).val)
    /\ out = NoOut
    /\ last = [op |-> "start"]
    /\ procs = NoProcs

\* what a caller may pass to verify in place of the signature text t:
\* t, nothing, t with '=' appended, "AAAA", t with another first character,
\* t with a '+', t without its last character, t with another last character
SuppliedSigTexts(t) ==
    {t, <<>>, Append(t, 61), <<65, 65, 65, 65>>}
        \cup (IF Len(t) = 0 THEN {}
              ELSE {[t EXCEPT ![1] = B64Char((B64Value(@) + 1) % 64)],
                    [t EXCEPT ![1] = 43],
                    SubSeq(t, 1, Len(t) - 1),
                    [t EXCEPT ![Len(t)] = B64Char((B64Value(@) + 1) % 64)]})

\* rcli text sign, up to the printed signature text
TextSign(format, path, input) ==
    /\ Running
    /\ verify_file_exists(fs, path)
    /\ LET res == process_text_sign(fs, input, path, format)
       IN  /\ last' = [op |-> "sign", format |-> format, path |-> path,
                       input |-> input, res |-> res]
           /\ out' = IF IsOk(res)
                     THEN [kind |-> "sigtext", bytes |-> res.val,
                           format |-> format, path |-> path,
                           key |-> <<>>, data |-> input.bytes,
                           nonce |-> <<>>]
                     ELSE out
    /\ UNCHANGED <<fs, procs>>

\* rcli text verify --sig <text>
TextVerify(format, path, input, sig) ==
    /\ Running
    /\ verify_file_exists(fs, path)
    /\ last' = [op |-> "verify", format |-> format, path |-> path,
                input |-> input, sig |-> sig,
                res |-> process_text_verify(fs, input, path, format, sig)]
    /\ UNCHANGED <<fs, out, procs>>

NextSigText ==
    \/ \E format \in Formats, path \in Paths, input \in TextInputs :
          TextSign(format, path, input)
    \/ \E format \in Formats, path \in Paths, input \in TextInputs,
          sig \in SuppliedSigTexts(out.bytes) :
          TextVerify(format, path, input, sig)

SpecSigText == InitSigText /\ [][NextSigText]_vars

\* the implementation selected by the format tag accepts sig over data
Accepts(format, key, data, sig) ==
    IF format = "blake3" THEN keyed_hash(key, data) = sig
    ELSE Len(sig) = SigLen /\ dalek_verify(key, data, sig)

\* the signature has the shape the selected implementation requires
WellFormed(format, sig) == format = "blake3" \/ Len(sig) = SigLen

VerifierOf(format) == IF format = "blake3" THEN "Blake3" ELSE "Ed25519Verifier"

\* C13: process_text_verify returns Ok(true) only when the input is read,
\* the signature text decodes, the key loads for the format and the selected
\* implementation accepts the decoded signature over the whole input; an
\* unreadable input, a decoding failure, a key-loading failure and a
\* malformed signature are each returned as an error, and a mismatching
\* signature as Ok(false).
C13_VerifyNeverLies ==
    last.op = "verify" =>
        LET reader == get_reader(last.input)
            decoded == URL_SAFE_NO_PAD_decode(last.sig)
            key == KeyLoader_load(VerifierOf(last.format), fs, last.path)
        IN  /\ last.res = Ok(TRUE)
               => /\ IsOk(reader) /\ IsOk(decoded) /\ IsOk(key)
                  /\ Accepts(last.format, key.val, reader.val, decoded.val)
            /\ ~IsOk(reader) => IsErrOf(last.res, "io::Error")
            /\ IsOk(reader) /\ ~IsOk(decoded)
               => IsErrOf(last.res, "base64::DecodeError")
            /\ IsOk(reader) /\ IsOk(decoded) /\ ~IsOk(key)
               => IsErr(last.res)
            /\ IsOk(reader) /\ IsOk(decoded) /\ IsOk(key)
               => IF ~WellFormed(last.format, decoded.val)
                  THEN IsErr(last.res)
                  ELSE last.res
                         = Ok(Accepts(last.format, key.val, reader.val,
                                      decoded.val))

\* C14: decrypt fails for every payload of fewer than 13 bytes; a payload of
\* exactly 12 bytes, a nonce with no ciphertext byte, is an error and never
\* an empty plaintext.
C14_MinimumPayload ==
    last.op = "decrypt" /\ Len(last.payload) < NonceLen + 1
    => /\ IsErr(last.res)
       /\ Len(last.payload) = NonceLen
          => IsErrOf(last.res, "Error decrypting data")

\* decrypt was given the 12-byte nonce of a payload encrypt returned, under
\* the key that encrypted it
C14_Witness ==
    /\ last.op = "decrypt"
    /\ out.kind = "payload"
    /\ last.path = out.path
    /\ last.payload = NoncePrefix(out.bytes)
    /\ Len(last.payload) = NonceLen
    /\ IsOk(ChaCha20Poly1305_load(fs, last.path))
    /\ IsErr(last.res)

---------------------------------------------------------------------------
(* Two symmetric key files with the same first 32 bytes *)

\* n bytes that differ from what KeyFile has after byte KeyLen
OtherTail(n) == [i \in 1..n |-> Mod256(KeyFile(KeyLen + i)[KeyLen + i] + 1)]

TwinPath == "blake3.txt"

\* the fixture key with MaxExtra bytes after the first KeyLen, and beside it
\* a file with the same first KeyLen bytes followed by up to MaxExtra other
\* bytes
InitTrunc ==
    /\ \E n \in 0..MaxExtra :
          fs = [InitFs(KeyLen + MaxExtra) EXCEPT
                   ![TwinPath] = File(KeyFile(KeyLen) \o OtherTail(n))]
    /\ out = NoOut
    /\ last = [op |-> "start"]
    /\ procs = NoProcs

NextTrunc ==
    \/ \E scheme \in Schemes, path \in Paths : Load(scheme, path)
    \/ \E path \in Paths, data \in Datas : Sign("blake3", path, data)
    \/ \E path \in Paths, data \in Datas, sig \in SuppliedSigs(out.bytes) :
          Verify("blake3", path, data, sig)
    \/ \E path \in Paths, data \in Datas, r \in NonceDraws :
          Encrypt(path, data, r)
    \/ \E path \in Paths, payload \in SuppliedPayloads(out.bytes) :
          Decrypt(path, payload)

SpecTrunc == InitTrunc /\ [][NextTrunc]_vars

\* the key files of at least KeyLen bytes that have the first KeyLen bytes
\* of the file at path
Twins(path) ==
    {q \in Paths :
        /\ fs[q].exists
        /\ Len(fs[q].bytes) >= KeyLen
        /\ fs[path].exists
        /\ Len(fs[path].bytes) >= KeyLen
        /\ SubSeq(fs[q].bytes, 1, KeyLen) = SubSeq(fs[path].bytes, 1, KeyLen)}

\* C15: for the keyed-hash key and the cipher key, a file of 32 or more
\* bytes loads and the key is its first 32 bytes; with two key files that
\* agree on their first 32 bytes, signing gives the same signature under
\* either, verification gives the same answer under either (a signature
\* made under one verifies under the other), and a payload encrypted under
\* one decrypts to its plaintext under the other.
C15_OversizedKeyTruncates ==
    /\ /\ last.op = "load"
       /\ last.scheme \in {"Blake3", "ChaCha20Poly1305"}
       /\ fs[last.path].exists
       /\ Len(fs[last.path].bytes) >= KeyLen
       => last.res = Ok(SubSeq(fs[last.path].bytes, 1, KeyLen))
    /\ last.op = "sign"
       => \A q \in Twins(last.path) :
             /\ IsOk(last.res)
             /\ text_sign(fs, last.data, q, last.format) = last.res
    /\ last.op = "verify"
       => \A q \in Twins(last.path) :
             /\ IsOk(last.res)
             /\ text_verify(fs, last.data, q, last.format, last.sig)
                  = last.res
             /\ /\ out.kind = "sig"
                /\ q \in Twins(out.path)
                /\ last.sig = out.bytes
                /\ last.data = out.data
                => last.res = Ok(TRUE)
    /\ /\ last.op = "decrypt"
       /\ out.kind = "payload"
       /\ last.path \in Twins(out.path)
       /\ last.payload = out.bytes
       => last.res = Ok(out.data)

\* a payload encrypted under one oversized key file was decrypted under
\* another one with the same first 32 bytes and another tail
C15_Witness ==
    /\ last.op = "decrypt"
    /\ out.kind = "payload"
    /\ last.path # out.path
    /\ last.path \in Twins(out.path)
    /\ Len(fs[last.path].bytes) > KeyLen
    /\ Len(fs[out.path].bytes) > KeyLen
    /\ fs[last.path].bytes # fs[out.path].bytes
    /\ last.payload = out.bytes
    /\ last.res = Ok(out.data)

\* a signature made under one oversized key file was verified under the
\* other
C15_WitnessVerify ==
    /\ last.op = "verify"
    /\ out.kind = "sig"
    /\ last.path # out.path
    /\ last.path \in Twins(out.path)
    /\ fs[last.path].bytes # fs[out.path].bytes
    /\ last.sig = out.bytes
    /\ last.data = out.data
    /\ last.res = Ok(TRUE)

---------------------------------------------------------------------------
(* The facade on text: encrypt / decrypt *)

\* 10xxxxxx
IsCont(c) == c >= 128 /\ c <= 191

RECURSIVE IsUtf8(_)
\* what String::from_utf8 accepts: well-formed sequences of one to four
\* bytes, no overlong form, no surrogate, nothing above U+10FFFF
IsUtf8(b) ==
    IF Len(b) = 0 THEN TRUE
    ELSE LET c == b[1]
         IN  IF c < 128 THEN IsUtf8(SubSeqFrom(b, 2))
             ELSE IF c >= 194 /\ c <= 223
             THEN /\ Len(b) >= 2
                  /\ IsCont(b[2])
                  /\ IsUtf8(SubSeqFrom(b, 3))
             ELSE IF c >= 224 /\ c <= 239
             THEN /\ Len(b) >= 3
                  /\ IsCont(b[2])
                  /\ c = 224 => b[2] >= 160
                  /\ c = 237 => b[2] <= 159
                  /\ IsCont(b[3])
                  /\ IsUtf8(SubSeqFrom(b, 4))
             ELSE IF c >= 240 /\ c <= 244
             THEN /\ Len(b) >= 4
                  /\ IsCont(b[2])
                  /\ c = 240 => b[2] >= 144
                  /\ c = 244 => b[2] <= 143
                  /\ IsCont(b[3])
                  /\ IsCont(b[4])
                  /\ IsUtf8(SubSeqFrom(b, 5))
             ELSE FALSE

String_from_utf8(b) == IF IsUtf8(b) THEN Ok(b) ELSE Err("FromUtf8Error")

process_text_encrypt(files, input, path, nonce) ==
    LET reader == get_reader(input)
    IN  IF ~IsOk(reader) THEN reader
        ELSE LET encrypted == text_encrypt(files, reader.val, path, nonce)
             IN  IF ~IsOk(encrypted) THEN encrypted
                 ELSE Ok(URL_SAFE_NO_PAD_encode(encrypted.val))

\* variant: String::from_utf8_lossy, every ill-formed input becoming U+FFFD
process_text_decrypt_lossy(files, input, path) ==
    LET reader == get_reader(input)
    IN  IF ~IsOk(reader) THEN reader
        ELSE LET encrypted == URL_SAFE_NO_PAD_decode(reader.val)
             IN  IF ~IsOk(encrypted) THEN encrypted
                 ELSE LET decrypted == text_decrypt(files, encrypted.val,
                                                    path)
                      IN  IF ~IsOk(decrypted) THEN decrypted
                          ELSE IF IsUtf8(decrypted.val) THEN decrypted
                          ELSE Ok(<<239, 191, 189>>)

process_text_decrypt(files, input, path) ==
    LET reader == get_reader(input)
    IN  IF ~IsOk(reader) THEN reader
        ELSE LET encrypted == URL_SAFE_NO_PAD_decode(reader.val)
             IN  IF ~IsOk(encrypted) THEN encrypted
                 ELSE LET decrypted == text_decrypt(files, encrypted.val,
                                                    path)
                      IN  IF ~IsOk(decrypted) THEN decrypted
                          ELSE String_from_utf8(decrypted.val)

\* inputs beyond ASCII: U+00E9, a lead byte alone, 0xFF, a surrogate
NonAscii == {<<195, 169>>, <<195>>, <<255>>, <<237, 160, 128>>}

PlainInputs ==
    TextInputs \cup {[readable |-> TRUE, bytes |-> d] : d \in NonAscii}

\* what decrypt may find in its input in place of the armored text t: t,
\* t followed by a line feed, nothing, t with another first character, t
\* without its last character; or an unreadable input
SuppliedArmored(t) ==
    {[readable |-> TRUE, bytes |-> u] :
        u \in {t, Append(t, 10), <<>>}
                \cup (IF Len(t) = 0 THEN {}
                      ELSE {[t EXCEPT ![1] = B64Char((B64Value(@) + 1) % 64)],
                            SubSeq(t, 1, Len(t) - 1)})}
        \cup {[readable |-> FALSE, bytes |-> <<>>]}

\* a fixture key one byte short of KeyLen, of KeyLen bytes, or longer
InitEncText ==
    /\ \E n \in {KeyLen - 1, KeyLen, KeyLen + MaxExtra} : fs = InitFs(n)
    /\ out = NoOut
    /\ last = [op |-> "start"]
    /\ procs = NoProcs

\* rcli text encrypt, up to the printed text
TextEncrypt(path, input, r) ==
    /\ Running
    /\ verify_file_exists(fs, path)
    /\ LET nonce == NonceOf(r)
           res == process_text_encrypt(fs, input, path, nonce)
       IN  /\ last' = [op |-> "encrypt", path |-> path, input |-> input,
                       res |-> res]
           /\ out' = IF IsOk(res)
                     THEN [kind |-> "armored", bytes |-> res.val,
                           format |-> "chacha20poly1305", path |-> path,
                           key |-> ChaCha20Poly1305_load(fs, path).val,
                           data |-> input.bytes, nonce |-> nonce]
                     ELSE out
    /\ UNCHANGED <<fs, procs>>

\* rcli text decrypt
TextDecrypt(path, input) ==
    /\ Running
    /\ verify_file_exists(fs, path)
    /\ last' = [op |-> "decrypt", path |-> path, input |-> input,
                res |-> process_text_decrypt(fs, input, path)]
    /\ UNCHANGED <<fs, out, procs>>

NextEncText ==
    \/ \E path \in Paths, input \in PlainInputs, r \in NonceDraws :
          TextEncrypt(path, input, r)
    \/ \E path \in Paths, input \in SuppliedArmored(out.bytes) :
          TextDecrypt(path, input)

SpecEncText == InitEncText /\ [][NextEncText]_vars

\* decrypt was given exactly the text encrypt returned, with the same key
\* file
DecryptsReturnedText ==
    /\ last.op = "decrypt"
    /\ out.kind = "armored"
    /\ last.path = out.path
    /\ last.input = [readable |-> TRUE, bytes |-> out.bytes]

\* the characters n bytes take in unpadded base64
ArmoredLen(n) == (4 * n + 2) \div 3

\* C16: process_text_decrypt applied to exactly the text process_text_encrypt
\* returned for P under the same key returns P when P is valid UTF-8 and an
\* error when it is not; the text is the URL-safe unpadded base64 of
\* nonce || ciphertext_with_tag, which decrypt decodes before it splits off
\* the nonce.
C16_ArmoredRoundTrip ==
    /\ DecryptsReturnedText
       => IF IsUtf8(out.data) THEN last.res = Ok(out.data)
          ELSE IsErrOf(last.res, "FromUtf8Error")
    /\ out.kind = "armored"
       => LET payload == out.nonce
                           \o aead_encrypt(out.key, out.nonce, out.data).val
          IN  /\ Len(out.bytes) = ArmoredLen(Len(payload))
              /\ \A i \in 1..Len(out.bytes) : B64Value(out.bytes[i]) >= 0
              /\ URL_SAFE_NO_PAD_decode(out.bytes) = Ok(payload)
              /\ Len(payload) = NonceLen + Len(out.data) + TagLen

\* a two-byte UTF-8 character came back from its armored payload
C16_Witness ==
    /\ DecryptsReturnedText
    /\ out.data = <<195, 169>>
    /\ last.res = Ok(<<195, 169>>)

\* the armored payload of a byte that is no UTF-8 was decrypted
C16_WitnessInvalid ==
    /\ DecryptsReturnedText
    /\ out.data = <<255>>
    /\ IsErr(last.res)

===========================================================================
